---- MODULE Spec2Model ----
(***************************************************************************)
(* Model of the streaming FIR filter of src/lib.rs: DigitalFilter<N> with  *)
(* its coefficient array, its heapless::spsc::Queue ring buffer and the    *)
(* three operations new(), filter() and clear_buffer().                    *)
(*                                                                         *)
(* Samples and coefficients are f32 in the source; the model draws them    *)
(* from small ranges of integers, on which f32 arithmetic is exact.        *)
(* Arrays keep the source's 0-based indices (functions on 0..N-1).         *)
(***************************************************************************)
EXTENDS Integers, Sequences, FiniteSets

\* ---------------------------------------------------------------- bounds
\* largest const generic N (array length, sentinel included)
MaxN == 4
\* coefficients are drawn from 0..MaxCoef
MaxCoef == 1
\* input samples are drawn from 0..MaxIn
MaxIn == 1
\* most filter() calls between two resets
MaxCalls == 4

\* the same two bounds for the runs of two independently driven instances
TwoMaxN == 3
TwoMaxCalls == 2

CoefVals == 0..MaxCoef
InVals == 0..MaxIn
\* heapless::spsc::Queue::new() rejects N < 2 at compile time
Sizes == 2..MaxN
TwoSizes == 2..TwoMaxN

VARIABLES
    pc,      \* "start" | "ready" | "new_panic" | "filter_panic" | "clear_panic"
    arg,     \* the array handed to new()
    self,    \* the DigitalFilter under test: [coeffs, buffer, num_taps]
    fresh,   \* a twin built by new() from the same array at construction
             \* and again at every clear_buffer() of self; gets the same inputs
             \* (SpecTwo, SpecPair: a second instance, driven on its own)
    xs,      \* inputs consumed by self since construction or the last reset
    xsFresh, \* inputs consumed by fresh since it was built or last reset
    y,       \* value returned by the last filter() call on self
    yFresh,  \* value returned by the last filter() call on fresh
    op,      \* last operation: "none" | "new" | "filter" | "clear"
             \* (on the second instance: "filter_fresh" | "clear_fresh")
    cleared  \* "no" | "at_start" (only resets, all before any filter()) | "after_use"

vars == <<pc, arg, self, fresh, xs, xsFresh, y, yFresh, op, cleared>>

\* ------------------------------------------------- heapless::spsc::Queue
\* A slot of the ring is <<>> while uninitialised (MaybeUninit) and <<v>>
\* once written.
Cap(q) == Cardinality(DOMAIN q.buf)

QueueNew(n) == [buf |-> [i \in 0..(n - 1) |-> <<>>], head |-> 0, tail |-> 0]

QLen(q) == (q.tail - q.head + Cap(q)) % Cap(q)

enqueue(q, val) ==
    LET next_tail == (q.tail + 1) % Cap(q) IN
    IF next_tail # q.head
    THEN [ok |-> TRUE,
          q |-> [q EXCEPT !.buf[q.tail] = <<val>>, !.tail = next_tail]]
    ELSE [ok |-> FALSE, q |-> q]

dequeue(q) ==
    IF q.head # q.tail
    THEN [some |-> TRUE, val |-> q.buf[q.head],
          q |-> [q EXCEPT !.head = (q.head + 1) % Cap(q)]]
    ELSE [some |-> FALSE, val |-> <<>>, q |-> q]

\* the index-th element yielded by iter(), oldest first
IterAt(q, index) == q.buf[(q.head + index) % Cap(q)][1]

\* History as a sequence, oldest first
History(q) == [i \in 1..QLen(q) |-> IterAt(q, i - 1)]

\* ---------------------------------------------------------- DigitalFilter
\* for _idx in 0..n { buffer.enqueue(0.).unwrap(); }
RECURSIVE Refill(_, _)
Refill(q, n) ==
    IF n = 0 THEN [panic |-> FALSE, q |-> q]
    ELSE LET e == enqueue(q, 0) IN
         IF e.ok THEN Refill(e.q, n - 1) ELSE [panic |-> TRUE, q |-> q]

\* new() without the sentinel check
new_nocheck(coeffs) ==
    LET num_taps == Cardinality(DOMAIN coeffs) - 1
        r == Refill(QueueNew(Cardinality(DOMAIN coeffs)), num_taps)
    IN  [panic |-> r.panic,
         self |-> [coeffs |-> coeffs, buffer |-> r.q, num_taps |-> num_taps]]

\* new() that zero-fills one sample too few
new_short(coeffs) ==
    LET num_taps == Cardinality(DOMAIN coeffs) - 1
        r == Refill(QueueNew(Cardinality(DOMAIN coeffs)), num_taps - 1)
    IN  IF coeffs[num_taps] # 0
        THEN [panic |-> TRUE, self |-> <<>>]
        ELSE [panic |-> r.panic,
              self |-> [coeffs |-> coeffs, buffer |-> r.q, num_taps |-> num_taps]]

\* new() that stores a tap count one too small (coeffs.len() - 2)
new_taps_off(coeffs) ==
    LET num_taps == Cardinality(DOMAIN coeffs) - 1
        r == Refill(QueueNew(Cardinality(DOMAIN coeffs)), num_taps)
    IN  IF coeffs[num_taps] # 0
        THEN [panic |-> TRUE, self |-> <<>>]
        ELSE [panic |-> r.panic,
              self |-> [coeffs |-> coeffs, buffer |-> r.q, num_taps |-> num_taps - 1]]

new(coeffs) ==
    LET num_taps == Cardinality(DOMAIN coeffs) - 1
        r == Refill(QueueNew(Cardinality(DOMAIN coeffs)), num_taps)
    IN  IF coeffs[num_taps] # 0
        THEN [panic |-> TRUE, self |-> <<>>]
        ELSE [panic |-> r.panic,
              self |-> [coeffs |-> coeffs, buffer |-> r.q, num_taps |-> num_taps]]

\* for el in self.buffer.iter() { c_idx -= 1; output += el * self.coeffs[c_idx]; }
\* c_idx is a usize: decrementing 0 panics (or wraps and indexes out of bounds)
RECURSIVE FilterLoop(_, _, _, _)
FilterLoop(f, index, c_idx, output) ==
    IF index >= QLen(f.buffer) THEN [panic |-> FALSE, output |-> output]
    ELSE IF c_idx = 0 THEN [panic |-> TRUE, output |-> output]
    ELSE FilterLoop(f, index + 1, c_idx - 1,
                    output + IterAt(f.buffer, index) * f.coeffs[c_idx - 1])

\* filter() that computes the output before the history is updated
filter_stale(f, input) ==
    LET d == dequeue(f.buffer)
        e == enqueue(d.q, input)
        g == [f EXCEPT !.buffer = e.q]
        l == FilterLoop(f, 0, f.num_taps, 0)
    IN  IF ~e.ok THEN [panic |-> TRUE, self |-> f, output |-> 0]
        ELSE [panic |-> l.panic, self |-> g, output |-> l.output]

\* filter() that walks the coefficients forward (oldest sample * coeffs[0])
filter_fwd(f, input) ==
    LET d == dequeue(f.buffer)
        e == enqueue(d.q, input)
        g == [f EXCEPT !.buffer = e.q]
        rev == [i \in DOMAIN f.coeffs |->
                  IF i < f.num_taps THEN f.coeffs[f.num_taps - 1 - i] ELSE f.coeffs[i]]
        l == FilterLoop([g EXCEPT !.coeffs = rev], 0, g.num_taps, 0)
    IN  IF ~e.ok THEN [panic |-> TRUE, self |-> f, output |-> 0]
        ELSE [panic |-> l.panic, self |-> g, output |-> l.output]

\* filter() that forgets to evict the oldest sample
filter_nodequeue(f, input) ==
    LET e == enqueue(f.buffer, input)
        g == [f EXCEPT !.buffer = e.q]
        l == FilterLoop(g, 0, g.num_taps, 0)
    IN  IF ~e.ok THEN [panic |-> TRUE, self |-> f, output |-> 0]
        ELSE [panic |-> l.panic, self |-> g, output |-> l.output]

filter(f, input) ==
    LET d == dequeue(f.buffer)
        e == enqueue(d.q, input)
        g == [f EXCEPT !.buffer = e.q]
        l == FilterLoop(g, 0, g.num_taps, 0)
    IN  IF ~e.ok THEN [panic |-> TRUE, self |-> f, output |-> 0]
        ELSE [panic |-> l.panic, self |-> g, output |-> l.output]

\* the values c_idx takes at the accesses self.coeffs[c_idx] of the loop of
\* filter(), in order; <<-1>> marks a decrement of c_idx = 0
RECURSIVE LoopReads(_, _, _)
LoopReads(f, index, c_idx) ==
    IF index >= QLen(f.buffer) THEN <<>>
    ELSE IF c_idx = 0 THEN <<-1>>
    ELSE <<c_idx - 1>> \o LoopReads(f, index + 1, c_idx - 1)

\* number of dequeues of the drain loop of clear_buffer() that return Some,
\* counted for at most fuel iterations
RECURSIVE DrainSteps(_, _)
DrainSteps(q, fuel) ==
    LET d == dequeue(q) IN
    IF fuel = 0 \/ ~d.some THEN 0 ELSE 1 + DrainSteps(d.q, fuel - 1)

\* while self.buffer.dequeue().is_some() {};
RECURSIVE Drain(_)
Drain(q) == LET d == dequeue(q) IN IF d.some THEN Drain(d.q) ELSE q

\* clear_buffer() that refills one zero too few
clear_short(f) ==
    LET r == Refill(Drain(f.buffer), f.num_taps - 1)
    IN  [panic |-> r.panic, self |-> [f EXCEPT !.buffer = r.q]]

\* clear_buffer() that leaves the history as it is
clear_noop(f) == [panic |-> FALSE, self |-> f]

\* clear_buffer() that wipes the coefficients along with the history
clear_all(f) ==
    LET r == Refill(Drain(f.buffer), f.num_taps)
    IN  [panic |-> r.panic,
         self |-> [f EXCEPT !.buffer = r.q, !.coeffs = [i \in DOMAIN f.coeffs |-> 0]]]

\* clear_buffer() that refills one zero too many
clear_long(f) ==
    LET r == Refill(Drain(f.buffer), f.num_taps + 1)
    IN  [panic |-> r.panic, self |-> [f EXCEPT !.buffer = r.q]]

clear_buffer(f) ==
    LET r == Refill(Drain(f.buffer), f.num_taps)
    IN  [panic |-> r.panic, self |-> [f EXCEPT !.buffer = r.q]]

\* ---------------------------------------------------------------- actions
Init ==
    /\ pc = "start"
    /\ arg = <<>>
    /\ self = <<>>
    /\ fresh = <<>>
    /\ xs = <<>>
    /\ xsFresh = <<>>
    /\ y = 0
    /\ yFresh = 0
    /\ op = "none"
    /\ cleared = "no"

CallNew ==
    /\ pc = "start"
    /\ \E n \in Sizes : \E coeffs \in [0..(n - 1) -> CoefVals] :
         LET r == new(coeffs) IN
         /\ arg' = coeffs
         /\ pc' = IF r.panic THEN "new_panic" ELSE "ready"
         /\ self' = r.self
         /\ fresh' = r.self
    /\ op' = "new"
    /\ UNCHANGED <<xs, xsFresh, y, yFresh, cleared>>

CallFilter ==
    /\ pc = "ready"
    /\ Len(xs) < MaxCalls
    /\ \E input \in InVals :
         LET r == filter(self, input)
             t == filter(fresh, input)
         IN
         /\ pc' = IF r.panic THEN "filter_panic" ELSE "ready"
         /\ self' = r.self
         /\ y' = r.output
         /\ fresh' = t.self
         /\ yFresh' = t.output
         /\ xs' = Append(xs, input)
         /\ xsFresh' = Append(xsFresh, input)
    /\ op' = "filter"
    /\ UNCHANGED <<arg, cleared>>

CallClearBuffer ==
    /\ pc = "ready"
    /\ LET r == clear_buffer(self) IN
         /\ pc' = IF r.panic THEN "clear_panic" ELSE "ready"
         /\ self' = r.self
    /\ fresh' = new(arg).self
    /\ cleared' = IF cleared = "no" /\ xs # <<>> THEN "after_use"
                  ELSE IF cleared = "no" THEN "at_start"
                  ELSE IF xs # <<>> THEN "after_use"
                  ELSE cleared
    /\ xs' = <<>>
    /\ xsFresh' = <<>>
    /\ op' = "clear"
    /\ UNCHANGED <<arg, y, yFresh>>

Next == CallNew \/ CallFilter \/ CallClearBuffer

Spec == Init /\ [][Next]_vars

\* ------------------------------------------- two instances, interleaved
\* What a call on one DigitalFilter leaves in another one: the struct owns
\* coeffs, buffer and num_taps by value, so nothing of `other` is touched.
Other_shared(other, called) == [other EXCEPT !.buffer = called.buffer]

Other(other, called) == other

\* the taps 1, 2, .., n-1 followed by the zero sentinel: all different, so
\* that no two alignments of samples and taps give the same output
Ramp(n) == [i \in 0..(n - 1) |-> IF i = n - 1 THEN 0 ELSE i + 1]

TwoNew ==
    /\ pc = "start"
    /\ \E n \in TwoSizes : \E coeffs \in {Ramp(n)} :
         LET r == new(coeffs) IN
         /\ arg' = coeffs
         /\ pc' = IF r.panic THEN "new_panic" ELSE "ready"
         /\ self' = r.self
         /\ fresh' = new(coeffs).self
    /\ op' = "new"
    /\ UNCHANGED <<xs, xsFresh, y, yFresh, cleared>>

SelfFilter ==
    /\ pc = "ready"
    /\ Len(xs) < TwoMaxCalls
    /\ \E input \in InVals :
         LET r == filter(self, input) IN
         /\ pc' = IF r.panic THEN "filter_panic" ELSE "ready"
         /\ self' = r.self
         /\ fresh' = Other(fresh, r.self)
         /\ y' = r.output
         /\ xs' = Append(xs, input)
    /\ op' = "filter"
    /\ UNCHANGED <<arg, xsFresh, yFresh, cleared>>

FreshFilter ==
    /\ pc = "ready"
    /\ Len(xsFresh) < TwoMaxCalls
    /\ \E input \in InVals :
         LET r == filter(fresh, input) IN
         /\ pc' = IF r.panic THEN "filter_panic" ELSE "ready"
         /\ fresh' = r.self
         /\ self' = Other(self, r.self)
         /\ yFresh' = r.output
         /\ xsFresh' = Append(xsFresh, input)
    /\ op' = "filter_fresh"
    /\ UNCHANGED <<arg, xs, y, cleared>>

SelfClear ==
    /\ pc = "ready"
    /\ LET r == clear_buffer(self) IN
         /\ pc' = IF r.panic THEN "clear_panic" ELSE "ready"
         /\ self' = r.self
         /\ fresh' = Other(fresh, r.self)
    /\ xs' = <<>>
    /\ op' = "clear"
    /\ UNCHANGED <<arg, xsFresh, y, yFresh, cleared>>

FreshClear ==
    /\ pc = "ready"
    /\ LET r == clear_buffer(fresh) IN
         /\ pc' = IF r.panic THEN "clear_panic" ELSE "ready"
         /\ fresh' = r.self
         /\ self' = Other(self, r.self)
    /\ xsFresh' = <<>>
    /\ op' = "clear_fresh"
    /\ UNCHANGED <<arg, xs, y, yFresh, cleared>>

TwoNext == TwoNew \/ SelfFilter \/ FreshFilter \/ SelfClear \/ FreshClear

SpecTwo == Init /\ [][TwoNext]_vars

\* ------------------------------------- two runs that differ in one sample
\* both instances get a sample, and not the same one; at most once per run
PairDiffer ==
    /\ pc = "ready"
    /\ Len(xs) < MaxCalls
    /\ xs = xsFresh
    /\ \E input \in InVals : \E poisoned \in InVals \ {input} :
         LET r == filter(self, input)
             t == filter(fresh, poisoned)
         IN
         /\ pc' = IF r.panic \/ t.panic THEN "filter_panic" ELSE "ready"
         /\ self' = r.self
         /\ y' = r.output
         /\ fresh' = t.self
         /\ yFresh' = t.output
         /\ xs' = Append(xs, input)
         /\ xsFresh' = Append(xsFresh, poisoned)
    /\ op' = "filter"
    /\ UNCHANGED <<arg, cleared>>

PairNext == CallNew \/ CallFilter \/ PairDiffer

SpecPair == Init /\ [][PairNext]_vars

\* ------------------------------------------------------------- properties
\* tap count T of the array handed to new(): its length without the sentinel
Taps == Cardinality(DOMAIN arg) - 1

\* x[m] of the input sequence, 0 before the first input
Padded(x, m) == IF m >= 1 /\ m <= Len(x) THEN x[m] ELSE 0

\* sum over j = 0..n-1 of b[j] * x[k-j]
RECURSIVE Conv(_, _, _, _)
Conv(b, n, x, k) ==
    IF n = 0 THEN 0
    ELSE Conv(b, n - 1, x, k) + b[n - 1] * Padded(x, k - (n - 1))

\* sum over i = 0..n-1 of h[i] * c[t-1-i], h being 1-based (h[i+1] is History[i])
RECURSIVE DotRev(_, _, _, _)
DotRev(h, c, t, n) ==
    IF n = 0 THEN 0
    ELSE DotRev(h, c, t, n - 1) + h[n] * c[t - n]

\* sum of the last n elements of x
RECURSIVE SumLast(_, _)
SumLast(x, n) ==
    IF n = 0 \/ x = <<>> THEN 0
    ELSE x[Len(x)] + SumLast(SubSeq(x, 1, Len(x) - 1), n - 1)

Min(a, b) == IF a < b THEN a ELSE b

Zeros(n) == [i \in 1..n |-> 0]

IsImpulse(x) == Len(x) >= 1 /\ x[1] = 1 /\ \A i \in 2..Len(x) : x[i] = 0

AllOnes == \A j \in 0..(Taps - 1) : arg[j] = 1

\* C1: on a freshly constructed filter the k-th filter() call returns the
\* zero-padded convolution sum over j = 0..T-1 of b[j] * x[k-j] of the
\* supplied taps with the inputs so far.
C1_Convolution ==
    (op = "filter" /\ cleared = "no") =>
        /\ pc = "ready"
        /\ y = Conv(arg, Taps, xs, Len(xs))

C1_Witness ==
    /\ pc = "ready" /\ op = "filter" /\ cleared = "no"
    /\ Taps = 3 /\ arg[0] = 1 /\ arg[1] = 1 /\ arg[2] = 0
    /\ xs = <<1, 0, 1, 1>>
    /\ y = 2

\* C2: every filter(input) call returns the sum over i = 0..T-1 of
\* History[i] * coeffs[T-1-i] taken over the updated History, whose newest
\* element is the input just inserted.
C2_DotProductAlignment ==
    op = "filter" =>
        /\ pc = "ready"
        /\ LET h == History(self.buffer) IN
           /\ Len(h) = self.num_taps
           /\ h[self.num_taps] = xs[Len(xs)]
           /\ y = DotRev(h, self.coeffs, self.num_taps, self.num_taps)

C2_Witness ==
    /\ pc = "ready" /\ op = "filter"
    /\ self.num_taps = 3
    /\ History(self.buffer) = <<0, 1, 1>>
    /\ self.coeffs[0] = 1 /\ self.coeffs[1] = 1 /\ self.coeffs[2] = 0
    /\ y = 2

\* C3: after construction or a reset, the input 1 followed by zeros makes the
\* first T outputs c0, ..., c_{T-1} in that order and every later output 0.
C3_ImpulseResponse ==
    (op = "filter" /\ IsImpulse(xs)) =>
        /\ pc = "ready"
        /\ y = IF Len(xs) <= Taps THEN arg[Len(xs) - 1] ELSE 0

C3_Witness ==
    /\ pc = "ready" /\ op = "filter" /\ IsImpulse(xs)
    /\ Taps = 3 /\ Len(xs) = 3
    /\ arg[0] = 0 /\ arg[2] = 1
    /\ y = 1

\* C4: with all T taps equal to 1 the k-th output of a fresh filter is the sum
\* of the last min(k, T) inputs.
C4_RunningSum ==
    (op = "filter" /\ cleared = "no" /\ AllOnes) =>
        /\ pc = "ready"
        /\ y = SumLast(xs, Min(Len(xs), Taps))

C4_Witness ==
    /\ pc = "ready" /\ op = "filter" /\ cleared = "no" /\ AllOnes
    /\ Taps = 3
    /\ xs = <<1, 1, 0, 1>>
    /\ y = 2

\* C5: across every filter() and clear_buffer() call History holds exactly T
\* samples before the call and after it.
C5_LengthPreserved ==
    [][pc = "ready" =>
         /\ QLen(self.buffer) = Taps
         /\ pc' = "ready"
         /\ QLen(self'.buffer) = Taps']_vars

C5_Witness ==
    /\ pc = "ready" /\ op = "filter" /\ cleared = "after_use"
    /\ Len(xs) >= Taps /\ Taps >= 2
    /\ QLen(self.buffer) = Taps

\* C6 as stated: History has as many samples as the stored coefficient array.
C6_Original ==
    pc = "ready" => QLen(self.buffer) = Cardinality(DOMAIN self.coeffs)

\* C6: History always holds num_taps samples, one fewer than the stored
\* coefficient array, whose last element is the zero sentinel.
C6_HistoryOneShorterThanCoeffs ==
    pc = "ready" =>
        /\ QLen(self.buffer) = self.num_taps
        /\ self.num_taps + 1 = Cardinality(DOMAIN self.coeffs)
        /\ self.coeffs[self.num_taps] = 0

C6_Witness ==
    /\ pc = "ready" /\ op = "filter" /\ Len(xs) > self.num_taps
    /\ Cardinality(DOMAIN self.coeffs) = 3
    /\ QLen(self.buffer) = 2

\* C7: new() fails exactly when the sentinel slot is non-zero, and a failed
\* new() leaves no filter and no History behind.
C7_SentinelValidation ==
    op # "none" =>
        /\ (arg[Taps] # 0) <=> (pc = "new_panic")
        /\ pc = "new_panic" => (self = <<>> /\ op = "new")
        /\ (op = "new" /\ arg[Taps] = 0) => (pc = "ready" /\ self.coeffs = arg)

C7_Witness ==
    /\ pc = "new_panic" /\ Taps = 3
    /\ arg[Taps] = 1 /\ arg[0] = 1 /\ arg[1] = 1 /\ arg[2] = 1

\* C8: filter() and clear_buffer() never panic: in every state after a
\* successful new() the dequeue of filter() removes an element and the
\* enqueue that follows finds a free slot.
C8_FilterNeverFails ==
    /\ pc \notin {"filter_panic", "clear_panic"}
    /\ pc = "ready" =>
         /\ self.num_taps >= 1
         /\ dequeue(self.buffer).some
         /\ \A input \in InVals : enqueue(dequeue(self.buffer).q, input).ok

C8_Witness ==
    /\ pc = "ready" /\ op = "filter" /\ cleared = "after_use"
    /\ self.num_taps = 1 /\ Len(xs) = MaxCalls

\* C9: clear_buffer() never fails and leaves History holding exactly T zeros,
\* the History of a freshly constructed filter.
C9_ClearRestoresZeros ==
    op = "clear" =>
        /\ pc = "ready"
        /\ History(self.buffer) = Zeros(Taps)
        /\ History(self.buffer) = History(new(arg).self.buffer)

\* the slot left outside the queue still holds the newest pre-reset sample
C9_Witness ==
    /\ pc = "ready" /\ op = "clear" /\ cleared = "after_use"
    /\ Taps = 3
    /\ self.buffer.buf[self.buffer.tail] = <<1>>

\* C10: after a clear_buffer(), whether called right after construction or
\* after filter() calls, every output equals that of a freshly constructed
\* filter fed the post-reset inputs, the zero-padded convolution of those.
C10_ResetEquivalence ==
    (op = "filter" /\ cleared # "no") =>
        /\ pc = "ready"
        /\ y = yFresh
        /\ y = Conv(arg, Taps, xs, Len(xs))
        /\ History(self.buffer) = History(fresh.buffer)

C10_Witness ==
    /\ pc = "ready" /\ op = "filter" /\ cleared = "after_use"
    /\ Taps = 3 /\ Len(xs) = 2
    /\ self.buffer # fresh.buffer
    /\ y = yFresh /\ y > 0

C10_WitnessAtStart ==
    /\ pc = "ready" /\ op = "filter" /\ cleared = "at_start"
    /\ Taps = 3 /\ Len(xs) = 2
    /\ y = yFresh /\ y > 0

\* History of a filter with t taps that consumed x since construction or reset
Window(x, t) == [i \in 1..t |-> Padded(x, Len(x) - t + i)]

\* C11: filter() and clear_buffer() leave coeffs and num_taps as new() set
\* them: the supplied array and its length less one.
C11_CoefficientsImmutable ==
    [][pc = "ready" =>
         /\ self'.coeffs = self.coeffs
         /\ self'.num_taps = self.num_taps
         /\ self'.coeffs = arg
         /\ self'.num_taps = Cardinality(DOMAIN arg) - 1]_vars

C11_Witness ==
    /\ pc = "ready" /\ op = "filter" /\ cleared = "after_use"
    /\ Taps = 3 /\ Len(xs) = 2
    /\ arg[0] = 1 /\ arg[1] = 0 /\ arg[2] = 1
    /\ self.coeffs = arg /\ self.num_taps = 3

\* C13: k filter() calls after construction or the last reset, History read
\* oldest first is max(0, T-k) zeros followed by the last min(k, T) inputs in
\* arrival order; from k >= T on it is exactly the T most recent inputs.
C13_SlidingWindow ==
    /\ op = "filter" => pc = "ready"
    /\ pc = "ready" =>
         /\ History(self.buffer) = Window(xs, Taps)
         /\ Len(xs) >= Taps =>
              History(self.buffer) = SubSeq(xs, Len(xs) - Taps + 1, Len(xs))
         /\ Len(xs) < Taps =>
              History(self.buffer) = Zeros(Taps - Len(xs)) \o xs

C13_Witness ==
    /\ pc = "ready" /\ op = "filter" /\ cleared = "after_use"
    /\ Taps = 3 /\ xs = <<1, 1, 0, 1>>
    /\ History(self.buffer) = <<1, 0, 1>>

\* C15: a successful new(coeffs) leaves History holding T = len(coeffs) - 1
\* zeros and coeffs as supplied, none of its enqueues fails, and the first
\* filter(x) on the fresh filter returns coeffs[0] * x.
C15_PostConstruction ==
    /\ (op = "new" /\ arg[Taps] = 0) =>
         /\ pc = "ready"
         /\ self.coeffs = arg
         /\ self.num_taps = Taps
         /\ QLen(self.buffer) = Cardinality(DOMAIN arg) - 1
         /\ History(self.buffer) = Zeros(Taps)
    /\ (op = "filter" /\ cleared = "no" /\ Len(xs) = 1) =>
         /\ pc = "ready"
         /\ y = arg[0] * xs[1]

C15_Witness ==
    /\ pc = "ready" /\ op = "filter" /\ cleared = "no"
    /\ Taps = 3 /\ xs = <<1>>
    /\ arg[0] = 1 /\ arg[1] = 1 /\ arg[2] = 1
    /\ y = 1

\* C16: in every reachable state the loop of filter() runs num_taps times and
\* reads coeffs at num_taps-1 down to 0: c_idx never underflows and the
\* sentinel slot coeffs[num_taps] is never read.
C16_IndexSafety ==
    /\ pc # "filter_panic"
    /\ pc = "ready" =>
         \A input \in InVals :
            LET r == filter(self, input)
                reads == LoopReads(r.self, 0, r.self.num_taps)
            IN
            /\ ~r.panic
            /\ Len(reads) = self.num_taps
            /\ \A i \in 1..Len(reads) : reads[i] = self.num_taps - i
            /\ \A i \in 1..Len(reads) : reads[i] \in 0..(Cardinality(DOMAIN arg) - 2)

C16_Witness ==
    /\ pc = "ready" /\ op = "filter" /\ cleared = "after_use"
    /\ Taps = 3 /\ Len(xs) = MaxCalls
    /\ LoopReads(self, 0, self.num_taps) = <<2, 1, 0>>

\* C17: from every reachable state the drain loop of clear_buffer() makes
\* exactly T successful dequeues and stops on an empty queue, and the T
\* enqueues that follow all succeed.
C17_ClearTerminates ==
    /\ pc # "clear_panic"
    /\ pc = "ready" =>
         /\ DrainSteps(self.buffer, Cap(self.buffer) + 1) = Taps
         /\ QLen(Drain(self.buffer)) = 0
         /\ ~dequeue(Drain(self.buffer)).some
         /\ ~Refill(Drain(self.buffer), self.num_taps).panic
         /\ QLen(Refill(Drain(self.buffer), self.num_taps).q) = Taps

C17_Witness ==
    /\ pc = "ready" /\ op = "clear" /\ cleared = "after_use"
    /\ Taps = 2
    /\ self.buffer.buf[self.buffer.tail] = <<1>>
    /\ self.buffer.head # 0

\* C12: two instances built from the same coefficients and driven in any
\* interleaving: a call on one leaves History and coefficients of the other
\* as they were, and whenever both have consumed the same inputs they hold
\* the same History and have returned the same output.
C12_IndependentInstances ==
    [][/\ op' \in {"filter", "clear"} => fresh' = fresh
       /\ op' \in {"filter_fresh", "clear_fresh"} => self' = self
       /\ (pc' = "ready" /\ xs' = xsFresh') =>
            /\ History(self'.buffer) = History(fresh'.buffer)
            /\ self'.coeffs = fresh'.coeffs
            /\ xs' # <<>> => y' = yFresh']_vars

\* both consumed <<1, 1>> since their resets, self in a ring that has turned
\* further than that of fresh
C12_Witness ==
    /\ pc = "ready" /\ op = "filter"
    /\ Taps = 2 /\ arg[0] = 1 /\ arg[1] = 2
    /\ xs = <<1, 1>> /\ xsFresh = <<1, 1>>
    /\ self.buffer.head # fresh.buffer.head
    /\ y = 3 /\ yFresh = 3

\* positions at which the two runs were fed different samples
Differ == {d \in 1..Len(xs) : xs[d] # xsFresh[d]}

\* C14: two runs of one filter whose inputs differ only in the sample of call
\* k hold the same History and return the same output from call k+T on.
C14_BoundedInfluence ==
    op = "filter" =>
        /\ pc = "ready"
        /\ Len(xs) = Len(xsFresh)
        /\ (\A d \in Differ : Len(xs) >= d + Taps) =>
             /\ History(self.buffer) = History(fresh.buffer)
             /\ y = yFresh
        /\ (\A d \in Differ : Len(xs) < d) => y = yFresh

\* the sample that differed has just left History; one call earlier it still
\* changed the output
C14_Witness ==
    /\ pc = "ready" /\ op = "filter"
    /\ Taps = 2 /\ arg[0] = 1 /\ arg[1] = 1
    /\ Differ = {2} /\ Len(xs) = 4
    /\ History(self.buffer) = History(fresh.buffer)
    /\ y = yFresh

C14_WitnessStillInside ==
    /\ pc = "ready" /\ op = "filter"
    /\ Taps = 2 /\ arg[1] = 1
    /\ Differ = {2} /\ Len(xs) = 3
    /\ y # yFresh

====
